---------------------------- MODULE Spec2Model ----------------------------
(***************************************************************************)
(* Model of src/app.py: the Streamlit project-tracking script that keeps   *)
(* its records in one Google-Sheets worksheet.                             *)
(*                                                                         *)
(* Representation.  TLA+ strings are ASCII only and cannot be indexed, so  *)
(* a Python string is a sequence of characters, each written as a one-     *)
(* element TLA+ string; a Hangul character is written by its romanisation  *)
(* ("wan","ryo" for the two characters of the terminal status).  Column    *)
(* names are keys and are plain TLA+ strings (romanised).                  *)
(* A cell of the worksheet or of the DataFrame is a record                 *)
(* [kind, num, str]: kind "nan" is a blank cell / NaN, "num" a number,     *)
(* "str" a string.                                                         *)
(***************************************************************************)
EXTENDS Integers, Sequences, FiniteSets, TLC

VARIABLES
    store,      \* the worksheet: [cols, rows], what get_as_dataframe returns
    df,         \* the session's DataFrame df as the last script run left it
    widgets,    \* the sidebar selectboxes: their options and selected values
    view,       \* the page rendered by the last run: active and completed rows
    today,      \* the clock: datetime.now() as <<year, month, day>>
    runs,       \* how many script runs there have been (bounds the model)
    failures,   \* how many calls of the worksheet have failed (bounds the model)
    last        \* record of the last script run (history, read by the properties)

vars == <<store, df, widgets, view, today, runs, failures, last>>

(***************************************************************************)
(* Bounds of the model.                                                    *)
(***************************************************************************)
\* the script runs at most this many times
MaxRuns == 4
\* at most this many calls of the worksheet fail in a session
MaxFailures == 2
\* raw worksheets of the load/save specification have at most this many rows
MaxRawRows == 2

(***************************************************************************)
(* Strings and cells.                                                      *)
(***************************************************************************)
EMPTY == <<>>

NaN == [kind |-> "nan", num |-> 0, str |-> EMPTY]
Str(s) == [kind |-> "str", num |-> 0, str |-> s]
Num(n) == [kind |-> "num", num |-> n, str |-> EMPTY]

isna(c) == c.kind = "nan"

DIGITS == <<"0", "1", "2", "3", "4", "5", "6", "7", "8", "9">>

IsDigit(ch) == \E i \in 1..10 : DIGITS[i] = ch

DigitVal(ch) == (CHOOSE i \in 1..10 : DIGITS[i] = ch) - 1

AllDigits(s) == \A i \in 1..Len(s) : IsDigit(s[i])

RECURSIVE IntOf(_)
\* int("2024"): the value of a non-empty digit string
IntOf(s) ==
    IF s = EMPTY THEN 0
    ELSE 10 * IntOf(SubSeq(s, 1, Len(s) - 1)) + DigitVal(s[Len(s)])

RECURSIVE DigitsOf(_)
\* str(n) for n >= 0
DigitsOf(n) ==
    IF n < 10 THEN <<DIGITS[n + 1]>>
    ELSE DigitsOf(n \div 10) \o <<DIGITS[(n % 10) + 1]>>

RECURSIVE ZeroPad(_, _)
\* the %04d / %02d of date.isoformat
ZeroPad(s, width) == IF Len(s) >= width THEN s ELSE ZeroPad(<<"0">> \o s, width)

\* str(cell) as the edit form's value=str(row[col]) computes it
StrOf(c) ==
    CASE c.kind = "str" -> c.str
      [] c.kind = "num" -> DigitsOf(c.num)
      [] OTHER -> <<"n", "a", "n">>

IsSpace(ch) == ch = " "

RECURSIVE lstrip(_)
lstrip(s) == IF s # EMPTY /\ IsSpace(s[1]) THEN lstrip(Tail(s)) ELSE s

RECURSIVE rstrip(_)
rstrip(s) ==
    IF s # EMPTY /\ IsSpace(s[Len(s)]) THEN rstrip(SubSeq(s, 1, Len(s) - 1)) ELSE s

\* a mutant of strip: nothing is removed
strip_mutant(s) == s

\* str.strip()
strip(s) == rstrip(lstrip(s))

(***************************************************************************)
(* Dates: datetime.strptime(s, "%Y-%m-%d").date(), date subtraction and    *)
(* str(date).                                                              *)
(***************************************************************************)
IsLeap(y) == (y % 4 = 0 /\ y % 100 # 0) \/ y % 400 = 0

DaysInMonth(y, m) ==
    CASE m \in {4, 6, 9, 11} -> 30
      [] m = 2 -> IF IsLeap(y) THEN 29 ELSE 28
      [] OTHER -> 31

RECURSIVE DaysBeforeMonth(_, _)
DaysBeforeMonth(y, m) ==
    IF m <= 1 THEN 0 ELSE DaysBeforeMonth(y, m - 1) + DaysInMonth(y, m - 1)

\* date.toordinal()
toordinal(d) ==
    LET y == d[1] - 1
    IN  y * 365 + (y \div 4) - (y \div 100) + (y \div 400)
        + DaysBeforeMonth(d[1], d[2]) + d[3]

\* (a - b).days
DaysBetween(a, b) == toordinal(a) - toordinal(b)

\* str(date): YYYY-MM-DD
FormatDate(d) ==
    ZeroPad(DigitsOf(d[1]), 4) \o <<"-">> \o ZeroPad(DigitsOf(d[2]), 2)
        \o <<"-">> \o ZeroPad(DigitsOf(d[3]), 2)

DashPositions(s) == {i \in 1..Len(s) : s[i] = "-"}

\* the %m and %d directives: one or two digits (%d also a space and a digit)
DayOrMonthField(f, allowSpace) ==
    \/ Len(f) \in {1, 2} /\ AllDigits(f)
    \/ allowSpace /\ Len(f) = 2 /\ f[1] = " " /\ IsDigit(f[2]) /\ f[2] # "0"

FieldVal(f) == IF f[1] = " " THEN DigitVal(f[2]) ELSE IntOf(f)

\* strptime(s, "%Y-%m-%d"): [ok |-> FALSE] stands for the ValueError
strptime(s) ==
    LET dashes == DashPositions(s)
        bad    == [ok |-> FALSE, date |-> <<0, 0, 0>>]
    IN  IF Cardinality(dashes) # 2 THEN bad
        ELSE
          LET p1 == CHOOSE i \in dashes : \A j \in dashes : i <= j
              p2 == CHOOSE i \in dashes : \A j \in dashes : j <= i
              Y  == SubSeq(s, 1, p1 - 1)
              M  == SubSeq(s, p1 + 1, p2 - 1)
              D  == SubSeq(s, p2 + 1, Len(s))
          IN  IF /\ Len(Y) = 4 /\ AllDigits(Y) /\ IntOf(Y) >= 1
                 /\ DayOrMonthField(M, FALSE) /\ FieldVal(M) \in 1..12
                 /\ DayOrMonthField(D, TRUE)
                 /\ FieldVal(D) \in 1..DaysInMonth(IntOf(Y), FieldVal(M))
              THEN [ok |-> TRUE, date |-> <<IntOf(Y), FieldVal(M), FieldVal(D)>>]
              ELSE bad


(***************************************************************************)
(* Vocabulary (romanised, one element per Hangul character).               *)
(***************************************************************************)
GIHOEK == <<"gi", "hoek">>
CHWALYEONG == <<"chwal", "yeong">>
KEOTPYEONJIP == <<"keot", "pyeon", "jip">>
GEURAEPIK == <<"geu", "rae", "pik">>
EUMHYANG == <<"eum", "hyang">>
SUJEONG == <<"su", "jeong">>
SISA == <<"si", "sa">>
WANRYO == <<"wan", "ryo">>
BORYU == <<"bo", "ryu">>
\* the "all owners" sentinel of the owner selectbox
JEONCHE == <<"jeon", "che">>

status_options ==
    <<GIHOEK, CHWALYEONG, KEOTPYEONJIP, GEURAEPIK, EUMHYANG, SUJEONG, SISA, WANRYO, BORYU>>

StatusSet == {status_options[i] : i \in 1..Len(status_options)}

\* year, month, name, description, status, owner, eight stages, preview date
default_columns ==
    <<"nyeondo", "wol", "projectmyeong", "seolmyeong", "jinhaengsangtae",
      "damdangPD", "gihoek", "chwalyeong", "pyeonjip", "design", "CG",
      "saekbojeong", "SFX", "BGM", "sisa">>

Columns == {default_columns[i] : i \in 1..Len(default_columns)}

(***************************************************************************)
(* The worksheet and the DataFrame.                                        *)
(* A worksheet is [cols, rows]: the header's columns and the data rows,    *)
(* each row a function on Columns (NaN in the columns the header lacks).   *)
(* A DataFrame is a sequence of [index, row]: index is the pandas label.   *)
(***************************************************************************)
\* pd.DataFrame(columns=default_columns)
EmptyFrame == <<>>

\* the worksheet after worksheet.clear()
ClearedSheet == [cols |-> {}, rows |-> <<>>]

\* the sequence with the elements f[1], ..., f[n], each evaluated once
Tuple(f, n) == SubSeq(f, 1, n)

Rows(frame) == Tuple([i \in 1..Len(frame) |-> frame[i].row], Len(frame))

Labels(frame) == {frame[i].index : i \in 1..Len(frame)}

RECURSIVE Ascending(_)
Ascending(S) ==
    IF S = {} THEN <<>>
    ELSE LET m == CHOOSE x \in S : \A y \in S : x <= y
         IN  <<m>> \o Ascending(S \ {m})

RECURSIVE KeepFrom(_, _, _)
KeepFrom(frame, K, i) ==
    IF i > Len(frame) THEN <<>>
    ELSE (IF i \in K THEN <<frame[i]>> ELSE <<>>) \o KeepFrom(frame, K, i + 1)

\* boolean indexing, frame[mask]: the entries at the positions K, in order, labels kept
Keep(frame, K) == KeepFrom(frame, K, 1)

Positions(frame) == 1..Len(frame)

\* get_as_dataframe(worksheet): the grid with a RangeIndex
get_as_dataframe(sheet) ==
    Tuple([i \in 1..Len(sheet.rows) |-> [index |-> i - 1, row |-> sheet.rows[i]]],
          Len(sheet.rows))

RowAllNaN(r, cols) == \A c \in cols : isna(r[c])

\* df.dropna(how='all'): labels are kept
dropna_rows(frame, cols) ==
    Keep(frame, {i \in Positions(frame) : ~RowAllNaN(frame[i].row, cols)})

\* the columns df.dropna(axis=1, how='all') keeps
dropna_cols(frame, cols) ==
    {c \in cols : \E i \in 1..Len(frame) : ~isna(frame[i].row[c])}

\* a mutant of the status default: a status outside the vocabulary is replaced too
replace_status_mutant(c) == IF c = Str(EMPTY) \/ c.str \notin StatusSet THEN Str(GIHOEK) ELSE c

\* df['jinhaengsangtae'].replace('', GIHOEK)
replace_status(c) == IF c = Str(EMPTY) THEN Str(GIHOEK) ELSE c

\* the missing columns added as "" and df.fillna("")
fillna(r, kept) ==
    [c \in Columns |-> IF c \in kept /\ ~isna(r[c]) THEN r[c] ELSE Str(EMPTY)]

\* load_data(); outcome "fail" is an exception inside the try block
load_data(sheet, outcome) ==
    IF outcome = "fail" THEN EmptyFrame
    ELSE
      LET raw == get_as_dataframe(sheet)
      IN  IF raw = <<>> \/ sheet.cols = {} THEN EmptyFrame
          ELSE
            LET kept   == dropna_rows(raw, sheet.cols)
                cols   == dropna_cols(kept, sheet.cols)
                filled == Tuple([i \in 1..Len(kept) |->
                                    [index |-> kept[i].index,
                                     row |-> fillna(kept[i].row, cols)]], Len(kept))
            IN  Tuple([i \in 1..Len(filled) |->
                        [index |-> filled[i].index,
                         row |-> [filled[i].row EXCEPT
                                    !.jinhaengsangtae =
                                        replace_status(filled[i].row.jinhaengsangtae)]]],
                      Len(filled))

\* a mutant of set_with_dataframe: the header overwrites the first row
set_with_dataframe_mutant(frame) ==
    [cols |-> Columns,
     rows |-> Tuple([i \in 1..(Len(frame) - 1) |->
                       [c \in Columns |->
                           IF frame[i + 1].row[c] = Str(EMPTY) THEN NaN
                           ELSE frame[i + 1].row[c]]],
                    Len(frame) - 1)]

\* set_with_dataframe(worksheet, df): header and rows, no index; "" is a blank cell
set_with_dataframe(frame) ==
    [cols |-> Columns,
     rows |-> Tuple([i \in 1..Len(frame) |->
                       [c \in Columns |->
                           IF frame[i].row[c] = Str(EMPTY) THEN NaN ELSE frame[i].row[c]]],
                    Len(frame))]

\* save_data(df): the worksheet afterwards.  outcome "clear_fails": clear() raised;
\* "write_fails": clear() succeeded and set_with_dataframe raised
save_data(frame, outcome, sheet) ==
    CASE outcome = "ok" -> set_with_dataframe(frame)
      [] outcome = "clear_fails" -> sheet
      [] outcome = "write_fails" -> ClearedSheet

LoadOutcomes == {"ok", "fail"}
SaveOutcomes == {"ok", "clear_fails", "write_fails"}

(***************************************************************************)
(* Year and month coercion.                                                *)
(***************************************************************************)
\* pd.to_numeric(cell, errors='coerce').fillna(default).astype(int)
to_numeric(c, default) ==
    CASE c.kind = "num" -> Num(c.num)
      [] c.kind = "str" /\ strip(c.str) # EMPTY /\ AllDigits(strip(c.str)) ->
            Num(IntOf(strip(c.str)))
      [] OTHER -> Num(default)

\* the coercion of the year and month columns
Coerce(frame, now) ==
    IF frame = EmptyFrame THEN frame
    ELSE Tuple([i \in 1..Len(frame) |->
                  [index |-> frame[i].index,
                   row |-> [frame[i].row EXCEPT
                              !.nyeondo = to_numeric(frame[i].row.nyeondo, now[1]),
                              !.wol = to_numeric(frame[i].row.wol, now[2])]]],
               Len(frame))

(***************************************************************************)
(* sorted(): integers, and strings in code-point order of the characters   *)
(* the model's strings use.                                                *)
(***************************************************************************)
SortedAsc(S) == Ascending(S)

RECURSIVE SortedDesc(_)
SortedDesc(S) ==
    IF S = {} THEN <<>>
    ELSE LET m == CHOOSE x \in S : \A y \in S : y <= x
         IN  <<m>> \o SortedDesc(S \ {m})

CharOrder ==
    <<" ", "-", "0", "1", "2", "3", "4", "5", "6", "7", "8", "9", "A", "B", "a", "b">>

CharRank(ch) ==
    IF \E i \in 1..Len(CharOrder) : CharOrder[i] = ch
    THEN CHOOSE i \in 1..Len(CharOrder) : CharOrder[i] = ch
    ELSE Len(CharOrder) + 1

RECURSIVE StrLeq(_, _)
StrLeq(a, b) ==
    IF a = EMPTY THEN TRUE
    ELSE IF b = EMPTY THEN FALSE
    ELSE IF a[1] = b[1] THEN StrLeq(Tail(a), Tail(b))
    ELSE CharRank(a[1]) < CharRank(b[1])

RECURSIVE SortedStr(_)
SortedStr(S) ==
    IF S = {} THEN <<>>
    ELSE LET m == CHOOSE x \in S : \A y \in S : StrLeq(x, y)
         IN  <<m>> \o SortedStr(S \ {m})

(***************************************************************************)
(* The sidebar: year, month and owner selectboxes.                         *)
(***************************************************************************)
NoPick == [widget |-> "none", pos |-> 0]

\* st.selectbox(label, opts): the user's pick (a position among the options shown)
\* or the value kept from the last run while the options are the same; the first
\* option when the options changed
selectbox(opts, prev, pick, name) ==
    IF opts # prev.opts THEN opts[1]
    ELSE IF pick.widget = name /\ pick.pos \in 1..Len(opts) THEN opts[pick.pos]
    ELSE prev.val

\* the widget values of a run over an empty DataFrame: no selectbox is drawn
NoWidgets(now) ==
    [year  |-> [opts |-> <<>>, val |-> now[1]],
     month |-> [opts |-> <<>>, val |-> now[2]],
     pd    |-> [opts |-> <<>>, val |-> JEONCHE]]

\* the sidebar of one run
Sidebar(frame, w, pick, now) ==
    IF frame = EmptyFrame THEN NoWidgets(now)
    ELSE
      LET N == 1..Len(frame)
          unique_years  == SortedDesc({frame[i].row.nyeondo.num : i \in N})
          selected_year == selectbox(unique_years, w.year, pick, "year")
          unique_months ==
              SortedAsc({frame[i].row.wol.num :
                            i \in {j \in N : frame[j].row.nyeondo.num = selected_year}})
          selected_month == selectbox(unique_months, w.month, pick, "month")
          pd_list ==
              <<JEONCHE>> \o
              SortedStr({frame[i].row.damdangPD.str :
                            i \in {j \in N : strip(StrOf(frame[j].row.damdangPD)) # EMPTY}})
          selected_pd == selectbox(pd_list, w.pd, pick, "pd")
      IN  [year  |-> [opts |-> unique_years, val |-> selected_year],
           month |-> [opts |-> unique_months, val |-> selected_month],
           pd    |-> [opts |-> pd_list, val |-> selected_pd]]

(***************************************************************************)
(* The view filter.                                                        *)
(***************************************************************************)
InScope(e, w) ==
    /\ e.row.nyeondo = Num(w.year.val)
    /\ e.row.wol = Num(w.month.val)
    /\ (w.pd.val # JEONCHE => e.row.damdangPD = Str(w.pd.val))

\* a mutant of the scope filter: the month is not compared
current_df_mutant(frame, w) ==
    Keep(frame, {i \in Positions(frame) :
                    /\ frame[i].row.nyeondo = Num(w.year.val)
                    /\ (w.pd.val # JEONCHE => frame[i].row.damdangPD = Str(w.pd.val))})

current_df(frame, w) ==
    IF frame # EmptyFrame
    THEN Keep(frame, {i \in Positions(frame) : InScope(frame[i], w)})
    ELSE EmptyFrame

active_df(cur) ==
    Keep(cur, {i \in Positions(cur) : cur[i].row.jinhaengsangtae # Str(WANRYO)})

completed_df(cur) ==
    Keep(cur, {i \in Positions(cur) : cur[i].row.jinhaengsangtae = Str(WANRYO)})

(***************************************************************************)
(* The urgency computation and the rendering of one row.                   *)
(***************************************************************************)
NoDate == <<>>

\* a mutant of the countdown: the three-day window is open at its end
Countdown_mutant(sisa_val, now) ==
    LET none == [is_urgent |-> FALSE, d_day_str |-> [label |-> "", n |-> 0],
                 sisa_date_obj |-> NoDate]
    IN  IF ~isna(sisa_val) /\ strip(StrOf(sisa_val)) # EMPTY
        THEN LET p == strptime(StrOf(sisa_val))
             IN  IF ~p.ok THEN none
                 ELSE LET days_left == DaysBetween(p.date, now)
                      IN  [is_urgent |-> days_left >= 0 /\ days_left < 3,
                           d_day_str |-> [label |-> "D", n |-> days_left],
                           sisa_date_obj |-> <<p.date>>]
        ELSE none

\* is_urgent, d_day_str and sisa_date_obj of one row
Countdown(sisa_val, now) ==
    LET none == [is_urgent |-> FALSE, d_day_str |-> [label |-> "", n |-> 0],
                 sisa_date_obj |-> NoDate]
    IN  IF ~isna(sisa_val) /\ strip(StrOf(sisa_val)) # EMPTY
        THEN LET p == strptime(StrOf(sisa_val))
             IN  IF ~p.ok THEN none
                 ELSE
                   LET days_left == DaysBetween(p.date, now)
                   IN  IF days_left < 0
                       THEN [is_urgent |-> FALSE,
                             d_day_str |-> [label |-> "D+", n |-> -days_left],
                             sisa_date_obj |-> <<p.date>>]
                       ELSE IF days_left = 0
                       THEN [is_urgent |-> TRUE,
                             d_day_str |-> [label |-> "D-Day", n |-> 0],
                             sisa_date_obj |-> <<p.date>>]
                       ELSE [is_urgent |-> days_left <= 3,
                             d_day_str |-> [label |-> "D-", n |-> days_left],
                             sisa_date_obj |-> <<p.date>>]
        ELSE none

\* current_status of a row
CurrentStatus(row) ==
    IF ~isna(row.jinhaengsangtae) THEN row.jinhaengsangtae ELSE Str(GIHOEK)

\* one expander: the title branch taken and the defaults of its edit form
RenderRow(e, now) ==
    LET c == Countdown(e.row.sisa, now)
    IN  [index |-> e.index,
         row |-> e.row,
         is_urgent |-> c.is_urgent,
         d_day_str |-> c.d_day_str,
         sisa_date_obj |-> c.sisa_date_obj,
         urgent_title |-> c.is_urgent /\ CurrentStatus(e.row) # Str(WANRYO)]

render_project_list(target_df, now) ==
    Tuple([i \in 1..Len(target_df) |-> RenderRow(target_df[i], now)], Len(target_df))

\* the two tabs of the page
Page(frame, w, now) ==
    LET cur == current_df(frame, w)
    IN  [active |-> render_project_list(active_df(cur), now),
         completed |-> render_project_list(completed_df(cur), now)]

\* every expander of the page, tab1 then tab2
Shown(page) == page.active \o page.completed

(***************************************************************************)
(* One script run up to the forms: load, coercion, sidebar.                *)
(***************************************************************************)
Prepare(sheet, outcome, w, pick, now) ==
    LET frame == Coerce(load_data(sheet, outcome), now)
    IN  [df |-> frame, widgets |-> Sidebar(frame, w, pick, now)]

(***************************************************************************)
(* The mutations.                                                          *)
(***************************************************************************)
\* new_data of the create form
new_data(form) ==
    [c \in Columns |->
        CASE c = "nyeondo" -> Num(form.year)
          [] c = "wol" -> Num(form.month)
          [] c = "projectmyeong" -> Str(form.name)
          [] c = "seolmyeong" -> Str(form.desc)
          [] c = "jinhaengsangtae" -> Str(form.status)
          [] c = "damdangPD" -> Str(form.pd)
          [] c = "sisa" -> IF form.sisa # NoDate THEN Str(FormatDate(form.sisa[1]))
                            ELSE Str(EMPTY)
          [] OTHER -> Str(EMPTY)]

\* df = new_df, or pd.concat([df, new_df], ignore_index=True)
append(frame, row) ==
    IF frame = EmptyFrame THEN <<[index |-> 0, row |-> row]>>
    ELSE LET rows == Rows(frame) \o <<row>>
         IN  Tuple([i \in 1..Len(rows) |-> [index |-> i - 1, row |-> rows[i]]], Len(rows))

\* the defaults of the edit form of a rendered row
status_index(current_status) ==
    IF \E i \in 1..Len(status_options) : Str(status_options[i]) = current_status
    THEN CHOOSE i \in 1..Len(status_options) : Str(status_options[i]) = current_status
    ELSE 1

\* the values the edit form submits: the defaults, or what the user entered
FormValues(shown, edit) ==
    [status |-> IF edit.status # <<>> THEN edit.status[1]
                ELSE status_options[status_index(CurrentStatus(shown.row))],
     pd     |-> IF edit.pd # <<>> THEN edit.pd[1] ELSE StrOf(shown.row.damdangPD),
     sisa   |-> IF edit.sisa # NoDate THEN edit.sisa ELSE shown.sisa_date_obj]

\* the twelve df.at[index, col] = ... assignments
assign(row, shown, edit) ==
    LET f == FormValues(shown, edit)
    IN  [c \in Columns |->
            CASE c \in {"nyeondo", "wol", "projectmyeong"} -> row[c]
              [] c = "jinhaengsangtae" -> Str(f.status)
              [] c = "damdangPD" -> Str(f.pd)
              [] c = "sisa" -> IF f.sisa # NoDate THEN Str(FormatDate(f.sisa[1]))
                                ELSE Str(EMPTY)
              [] OTHER -> Str(StrOf(shown.row[c]))]

update_at(frame, index, shown, edit) ==
    Tuple([i \in 1..Len(frame) |->
             IF frame[i].index = index
             THEN [index |-> frame[i].index, row |-> assign(frame[i].row, shown, edit)]
             ELSE frame[i]], Len(frame))

\* a mutant of the drop: the rows from the label on are dropped
drop_mutant(frame, index) ==
    Keep(frame, {i \in Positions(frame) : frame[i].index < index})

\* df.drop(index, inplace=True)
drop(frame, index) == Keep(frame, {i \in Positions(frame) : frame[i].index # index})

(***************************************************************************)
(* Inputs of the model.                                                    *)
(***************************************************************************)
\* the clock of a session
Todays == {<<2024, 2, 27>>, <<2024, 3, 1>>, <<2024, 3, 4>>}

Date_0301 == <<"2", "0", "2", "4", "-", "0", "3", "-", "0", "1">>
Date_0302_unpadded == <<"2", "0", "2", "4", "-", "3", "-", "2">>
Date_0230 == <<"2", "0", "2", "4", "-", "0", "2", "-", "3", "0">>

BlankRow == [c \in Columns |-> NaN]

RawRow(year, month, name, status, pd, sisa) ==
    [BlankRow EXCEPT !.nyeondo = year, !.wol = month, !.projectmyeong = name,
                     !.jinhaengsangtae = status, !.damdangPD = pd, !.sisa = sisa]

Row_a == RawRow(Num(2024), Num(3), Str(<<"a">>), Str(CHWALYEONG), Str(<<"A">>), Str(Date_0301))
Row_b == RawRow(Num(2024), Num(3), Str(<<"b">>), Str(WANRYO), Str(<<"B">>), Str(Date_0301))
\* a year typed as text, no month, no status, no owner, a date without zero padding
Row_c == RawRow(Str(<<"2", "0", "2", "4">>), NaN, Str(<<"a">>), NaN, NaN, Str(Date_0302_unpadded))
\* legacy data: a year that is no number, a status outside the vocabulary, no such day
Row_d == RawRow(Str(<<"b">>), Num(3), Str(<<"b">>), Str(<<"a">>), Str(<<"A">>), Str(Date_0230))
\* a status and a date of blanks only
Row_e == RawRow(Num(2023), Num(3), Str(<<"a">>), Str(<<" ">>), Str(<<"B">>), Str(<<" ">>))

\* a worksheet with a header and rows: a row is blank in the columns the header lacks
Sheet(cols, rows) ==
    [cols |-> cols,
     rows |-> Tuple([i \in 1..Len(rows) |->
                       [c \in Columns |-> IF c \in cols THEN rows[i][c] ELSE NaN]],
                    Len(rows))]

\* the worksheets a session starts from
InitSheets == {Sheet(Columns, <<Row_a, BlankRow, Row_b>>)}

\* the worksheets of the sessions that only look at the page
ViewSheets ==
    {Sheet(Columns, <<Row_a, Row_b, Row_c, Row_e>>),
     Sheet(Columns, <<Row_d, Row_b, BlankRow, Row_a>>),
     Sheet(Columns, <<Row_e, Row_c, Row_d>>)}

\* the rows and the headers of the raw worksheets that are loaded and persisted
RawRowSet == {BlankRow, Row_a, Row_b, Row_c, Row_d, Row_e}

Headers == {Columns, Columns \ {"jinhaengsangtae", "sisa"}}

RawSheets ==
    {ClearedSheet} \cup
    UNION {{Sheet(cols, Tuple(rows, k)) : cols \in Headers, rows \in [1..k -> RawRowSet]} :
              k \in 0..MaxRawRows}

\* what the user enters in the create form (the other fields keep their defaults)
CreateInputs ==
    {[name |-> EMPTY, status |-> WANRYO, sisa |-> <<<<2024, 3, 5>>>>],
     [name |-> <<" ">>, status |-> CHWALYEONG, sisa |-> NoDate],
     [name |-> <<"a", " ">>, status |-> BORYU, sisa |-> <<<<2024, 3, 5>>>>]}

NoEdit == [status |-> <<>>, pd |-> <<>>, sisa |-> NoDate]

\* what the user changes in an edit form (the other fields keep their defaults)
EditInputs ==
    {[NoEdit EXCEPT !.status = <<SUJEONG>>, !.sisa = <<<<2024, 2, 28>>>>]}

\* the selectbox changes of a rerun
Picks ==
    {NoPick} \cup [widget : {"year", "month", "pd"}, pos : {1, 2}]



(***************************************************************************)
(* The record of a script run.                                             *)
(*   op            "init", "rerun", "create", "update", "delete", "other", *)
(*                 and "load", "save", "reload" for the bare calls         *)
(*   loadOutcome   the outcome of the run's load_data                      *)
(*   pos           the place, among the expanders of the page the user     *)
(*                 looked at, of the one whose button was pressed (0: none)*)
(*   fired         whether a handler ran (a button returned True)          *)
(*   name          new_name of a create                                    *)
(*   edited        the row the handler created or rewrote                  *)
(*   mutated       the df handed to save_data                              *)
(*   saveOutcome   "none" when save_data was not called                    *)
(*   reloadOutcome the outcome of load_data in the run st.rerun() starts   *)
(*   unsaved       the created or edited rows whose persist failed and     *)
(*                 that no later persist has followed                      *)
(***************************************************************************)
Hist(op, lo, pos, fired, name, edited, mutated, so, ro) ==
    [op |-> op, loadOutcome |-> lo, pos |-> pos, fired |-> fired, name |-> name,
     edited |-> edited, mutated |-> mutated, saveOutcome |-> so, reloadOutcome |-> ro,
     unsaved |-> CASE so = "ok" -> <<>>
                   [] so # "none" /\ op \in {"create", "update"} -> edited
                   [] OTHER -> last.unsaved]

NoHist ==
    [op |-> "init", loadOutcome |-> "none", pos |-> 0, fired |-> FALSE,
     name |-> EMPTY, edited |-> <<>>, mutated |-> EmptyFrame,
     saveOutcome |-> "none", reloadOutcome |-> "none",
     unsaved |-> <<>>]

NoPage == [active |-> <<>>, completed |-> <<>>]

\* a session that has not run the script yet
NewSession(sheets, clocks) ==
    /\ store \in sheets
    /\ today \in clocks
    /\ df = EmptyFrame
    /\ widgets = NoWidgets(today)
    /\ view = NoPage
    /\ runs = 0
    /\ failures = 0
    /\ last = NoHist

\* the clock of the sessions of Spec
Clock == {<<2024, 2, 27>>}

Init == NewSession(InitSheets, Clock)

\* the calls of a run that failed
Failed(lo, so, ro) ==
    (IF lo = "fail" THEN 1 ELSE 0) + (IF so \in {"clear_fails", "write_fails"} THEN 1 ELSE 0)
        + (IF ro = "fail" THEN 1 ELSE 0)

\* the outcomes the calls of a step may meet
Outcomes(lo, so, ro) ==
    /\ failures + Failed(lo, so, ro) <= MaxFailures
    /\ failures' = failures + Failed(lo, so, ro)

\* one more script run
Run(lo, so, ro) ==
    /\ runs < MaxRuns
    /\ runs' = runs + 1
    /\ Outcomes(lo, so, ro)

\* a run that ends by rendering the page: no handler called st.rerun()
Finish(p, h) ==
    /\ df' = p.df
    /\ widgets' = p.widgets
    /\ view' = Page(p.df, p.widgets, today)
    /\ last' = h
    /\ UNCHANGED <<store, today>>

\* save_data(mutated), then st.rerun(): the next run loads, coerces and renders
SaveAndRerun(p, mutated, so, ro, h) ==
    \E written \in {save_data(mutated, so, store)} :
      \E q \in {Prepare(written, ro, p.widgets, NoPick, today)} :
        /\ store' = written
        /\ df' = q.df
        /\ widgets' = q.widgets
        /\ view' = Page(q.df, q.widgets, today)
        /\ last' = h
        /\ UNCHANGED today

\* the page is loaded, or a selectbox is changed
Rerun ==
    \E lo \in LoadOutcomes, pick \in Picks :
        /\ pick.widget # "none" => pick.pos \in 1..Len(widgets[pick.widget].opts)
        /\ Run(lo, "none", "none")
        /\ \E p \in {Prepare(store, lo, widgets, pick, today)} :
              Finish(p, Hist("rerun", lo, 0, FALSE, EMPTY, <<>>, EmptyFrame, "none", "none"))

\* the widgets' values the create form reads, and what the user entered
new_project_form(w, in) ==
    [year |-> w.year.val, month |-> w.month.val, name |-> in.name, desc |-> EMPTY,
     status |-> in.status, pd |-> IF w.pd.val # JEONCHE THEN w.pd.val ELSE EMPTY,
     sisa |-> in.sisa]

\* the create form is submitted
Create ==
    \E in \in CreateInputs, lo \in LoadOutcomes :
        \/ /\ strip(in.name) = EMPTY
           /\ Run(lo, "none", "none")
           /\ \E p \in {Prepare(store, lo, widgets, NoPick, today)} :
                 Finish(p, Hist("create", lo, 0, TRUE, in.name, <<>>, EmptyFrame,
                                "none", "none"))
        \/ /\ strip(in.name) # EMPTY
           /\ \E so \in SaveOutcomes, ro \in LoadOutcomes :
                 /\ Run(lo, so, ro)
                 /\ \E p \in {Prepare(store, lo, widgets, NoPick, today)} :
                    \E new_df \in {new_data(new_project_form(p.widgets, in))} :
                    \E mutated \in {append(p.df, new_df)} :
                       SaveAndRerun(p, mutated, so, ro,
                                    Hist("create", lo, 0, TRUE, in.name, <<new_df>>,
                                         mutated, so, ro))

\* the entry of a frame with a label
At(frame, index) == frame[CHOOSE i \in 1..Len(frame) : frame[i].index = index]

\* an edit form of the page is submitted
Update ==
    \E k \in 1..Len(Shown(view)), edit \in EditInputs, lo \in LoadOutcomes :
      \E clicked \in {Shown(view)[k]} :
      \E p \in {Prepare(store, lo, widgets, NoPick, today)} :
      \E cur \in {current_df(p.df, p.widgets)} :
        \/ /\ clicked.index \notin Labels(cur)
           /\ Run(lo, "none", "none")
           /\ Finish(p, Hist("update", lo, k, FALSE, EMPTY, <<>>, EmptyFrame,
                             "none", "none"))
        \/ /\ clicked.index \in Labels(cur)
           /\ \E so \in SaveOutcomes, ro \in LoadOutcomes :
                 /\ Run(lo, so, ro)
                 /\ \E shown \in {RenderRow(At(cur, clicked.index), today)} :
                    \E mutated \in {update_at(p.df, clicked.index, shown, edit)} :
                       SaveAndRerun(p, mutated, so, ro,
                                    Hist("update", lo, k, TRUE, EMPTY,
                                         <<At(mutated, clicked.index).row>>,
                                         mutated, so, ro))

\* a delete button of the page is pressed
Delete ==
    \E k \in 1..Len(Shown(view)), lo \in LoadOutcomes :
      \E clicked \in {Shown(view)[k]} :
      \E p \in {Prepare(store, lo, widgets, NoPick, today)} :
      \E cur \in {current_df(p.df, p.widgets)} :
        \/ /\ clicked.index \notin Labels(cur)
           /\ Run(lo, "none", "none")
           /\ Finish(p, Hist("delete", lo, k, FALSE, EMPTY, <<>>, EmptyFrame,
                             "none", "none"))
        \/ /\ clicked.index \in Labels(cur)
           /\ \E so \in SaveOutcomes, ro \in LoadOutcomes :
                 /\ Run(lo, so, ro)
                 /\ \E mutated \in {drop(p.df, clicked.index)} :
                       SaveAndRerun(p, mutated, so, ro,
                                    Hist("delete", lo, k, TRUE, EMPTY, <<>>, mutated,
                                         so, ro))

\* another session of the same program deletes a record and persists
OtherSession ==
    /\ Run("ok", "ok", "none")
    /\ \E theirs \in {Coerce(load_data(store, "ok"), today)} :
         \E i \in 1..Len(theirs) :
           /\ store' = save_data(drop(theirs, theirs[i].index), "ok", store)
           /\ last' = Hist("other", "none", 0, FALSE, EMPTY, <<>>, EmptyFrame,
                           "none", "none")
           /\ UNCHANGED <<df, widgets, view, today>>

Next == Rerun \/ Create \/ Update \/ Delete \/ OtherSession

Spec == Init /\ [][Next]_vars

(***************************************************************************)
(* Sessions that only look at the page, on several worksheets and days.    *)
(***************************************************************************)
InitView == NewSession(ViewSheets, Todays)

NextView == Rerun

SpecView == InitView /\ [][NextView]_vars

(***************************************************************************)
(* load_data, save_data and load_data again, called on raw worksheets.     *)
(***************************************************************************)
InitRoundTrip == NewSession(RawSheets, Clock)

\* df = load_data()
Load ==
    \E lo \in LoadOutcomes :
        /\ last.op = "init"
        /\ Outcomes(lo, "none", "none")
        /\ df' = load_data(store, lo)
        /\ last' = Hist("load", lo, 0, FALSE, EMPTY, <<>>, EmptyFrame, "none", "none")
        /\ UNCHANGED <<store, widgets, view, today, runs>>

\* save_data(df) with the df as loaded
Save ==
    \E so \in SaveOutcomes :
        /\ last.op = "load"
        /\ Outcomes("none", so, "none")
        /\ store' = save_data(df, so, store)
        /\ last' = Hist("save", last.loadOutcome, 0, FALSE, EMPTY, <<>>, df, so, "none")
        /\ UNCHANGED <<df, widgets, view, today, runs>>

\* df = load_data() once more
Reload ==
    \E ro \in LoadOutcomes :
        /\ last.op = "save"
        /\ Outcomes("none", "none", ro)
        /\ df' = load_data(store, ro)
        /\ last' = Hist("reload", last.loadOutcome, 0, FALSE, EMPTY, <<>>, last.mutated,
                        last.saveOutcome, ro)
        /\ UNCHANGED <<store, widgets, view, today, runs>>

NextRoundTrip == Load \/ Save \/ Reload

SpecRoundTrip == InitRoundTrip /\ [][NextRoundTrip]_vars

(***************************************************************************)
(* Properties.  A property of one script run is a property of a step: the  *)
(* unprimed store and view are the worksheet and the page before the run,  *)
(* last' is the record of the run.                                         *)
(***************************************************************************)
\* a string of whitespace only (the empty string included)
Blank(s) == \A i \in 1..Len(s) : s[i] = " "

AllOk(h) == h.loadOutcome = "ok" /\ h.saveOutcome = "ok" /\ h.reloadOutcome = "ok"

\* C1: save_data is all-or-nothing: after a call the worksheet holds the whole df it
\* was given, or exactly what it held before the call
C1_save_all_or_nothing ==
    [][last'.saveOutcome \in SaveOutcomes =>
          \/ store' = set_with_dataframe(last'.mutated)
          \/ store' = store]_vars

\* C2: every record load_data returns has a status of the vocabulary status_options
C2_status_in_vocabulary ==
    last.op = "load" =>
        \A i \in 1..Len(df) :
            /\ df[i].row.jinhaengsangtae.kind = "str"
            /\ df[i].row.jinhaengsangtae.str \in StatusSet

\* C2 (amended): every record load_data returns has a non-empty status: the default
\* GIHOEK where the worksheet's cell is blank, and the cell's value, inside the
\* vocabulary or not, where it is not blank
C2_status_defaulted_or_kept ==
    (last.op = "load" /\ last.loadOutcome = "ok") =>
        \A i \in 1..Len(df) :
            LET raw == store.rows[df[i].index + 1].jinhaengsangtae
                status == df[i].row.jinhaengsangtae
            IN  /\ ~isna(status)
                /\ status # Str(EMPTY)
                /\ isna(raw) => status = Str(GIHOEK)
                /\ ~isna(raw) => status = raw

\* C2, its case: a load that met a blank status cell and a status outside the vocabulary
C2_legacy_status_loaded ==
    /\ last.op = "load"
    /\ last.loadOutcome = "ok"
    /\ \E i \in 1..Len(df) : df[i].row.jinhaengsangtae.str \notin StatusSet
    /\ \E i \in 1..Len(df) :
          /\ isna(store.rows[df[i].index + 1].jinhaengsangtae)
          /\ df[i].row.jinhaengsangtae = Str(GIHOEK)

\* C3: an edit whose persist failed is in the set that the next successful persist
\* of the session writes (here: the persist of a later create)
C3_unsaved_edit_in_next_persist ==
    [][(last.unsaved # <<>> /\ last'.op = "create" /\ last'.saveOutcome = "ok") =>
          \E i \in 1..Len(last'.mutated) : last'.mutated[i].row = last.unsaved[1]]_vars

\* C4: an update or delete pressed on a row that is no longer at its label (the label
\* is gone, or another record has it) changes nothing: no handler runs, nothing is
\* persisted, the canonical set is the loaded one
C4_stale_position_not_found ==
    [][last'.op \in {"update", "delete"} =>
          LET clicked == Shown(view)[last'.pos]
              loaded == Coerce(load_data(store, last'.loadOutcome), today)
              stale == \/ clicked.index \notin Labels(loaded)
                       \/ At(loaded, clicked.index).row # clicked.row
          IN  stale => /\ ~last'.fired
                       /\ last'.saveOutcome = "none"
                       /\ store' = store
                       /\ df' = loaded]_vars

\* C5: a create whose name is blank after trimming is rejected: save_data is not
\* called, the worksheet is unchanged and the canonical set is the loaded one
C5_blank_name_rejected ==
    [][(last'.op = "create" /\ Blank(last'.name)) =>
          /\ last'.saveOutcome = "none"
          /\ store' = store
          /\ df' = Coerce(load_data(store, last'.loadOutcome), today)]_vars

\* C5, its case: a create with a name of whitespace, submitted over a worksheet with records
C5_blank_name_submitted ==
    /\ last.op = "create"
    /\ last.name # EMPTY
    /\ Blank(last.name)
    /\ last.loadOutcome = "ok"
    /\ df # EmptyFrame
    /\ store.rows # <<>>

\* C6: the urgent title is chosen exactly when the preview date is not blank, parses
\* as %Y-%m-%d, lies 0 to 3 days ahead of today, and the status is not WANRYO
C6_urgency_flag ==
    \A k \in 1..Len(Shown(view)) :
        LET r == Shown(view)[k]
            text == StrOf(r.row.sisa)
            p == strptime(text)
        IN  r.urgent_title <=>
                /\ ~isna(r.row.sisa)
                /\ ~Blank(text)
                /\ p.ok
                /\ DaysBetween(p.date, today) \in 0..3
                /\ r.row.jinhaengsangtae # Str(WANRYO)

\* C6, its case: a page with a record due in exactly 3 days under the urgent title, and a completed
\* record of the same date under the plain title
C6_due_in_three_days_shown ==
    \E a, b \in 1..Len(Shown(view)) :
        /\ Shown(view)[a].urgent_title
        /\ Shown(view)[a].d_day_str = [label |-> "D-", n |-> 3]
        /\ Shown(view)[b].row.jinhaengsangtae = Str(WANRYO)
        /\ Shown(view)[b].is_urgent
        /\ ~Shown(view)[b].urgent_title

\* the records of a tab, without what the rendering computed
Entries(rendered) ==
    Tuple([j \in 1..Len(rendered) |->
              [index |-> rendered[j].index, row |-> rendered[j].row]], Len(rendered))

\* how often a record is in a tab
Occurrences(tab, e) == Cardinality({j \in 1..Len(tab) : tab[j] = e})

\* a tab keeps the order of df
KeepsOrder(tab) ==
    \A j, k \in 1..Len(tab) :
        j < k => \E a, b \in 1..Len(df) : a < b /\ df[a] = tab[j] /\ df[b] = tab[k]

\* C7: the two tabs partition the scope: a record of the selected year and month
\* (and owner, unless JEONCHE is selected) is in exactly one tab, any other record
\* in none, and each tab keeps the order of df
C7_tabs_partition_scope ==
    LET active == Entries(view.active)
        completed == Entries(view.completed)
    IN  /\ \A i \in 1..Len(df) :
              Occurrences(active, df[i]) + Occurrences(completed, df[i]) =
                  IF /\ df[i].row.nyeondo.num = widgets.year.val
                     /\ df[i].row.wol.num = widgets.month.val
                     /\ (widgets.pd.val = JEONCHE
                            \/ df[i].row.damdangPD.str = widgets.pd.val)
                  THEN 1 ELSE 0
        /\ \A j \in 1..Len(active) :
              /\ \E i \in 1..Len(df) : df[i] = active[j]
              /\ active[j].row.jinhaengsangtae # Str(WANRYO)
        /\ \A j \in 1..Len(completed) :
              /\ \E i \in 1..Len(df) : df[i] = completed[j]
              /\ completed[j].row.jinhaengsangtae = Str(WANRYO)
        /\ KeepsOrder(active)
        /\ KeepsOrder(completed)

\* C7, its case: a page with records in both tabs while df holds records out of scope
C7_both_tabs_filled ==
    /\ view.active # <<>>
    /\ view.completed # <<>>
    /\ Len(Shown(view)) < Len(df)

\* C8: a delete of the record at position p of n, persisted and reloaded, leaves
\* n-1 records: those below p where they were, those above p one position lower,
\* all with their field values
C8_delete_shifts_positions ==
    [][(last'.op = "delete" /\ last'.fired /\ AllOk(last')) =>
          LET before == Coerce(load_data(store, "ok"), today)
              label == Shown(view)[last'.pos].index
              n == Len(before)
          IN  \E p \in 1..n :
                /\ before[p].index = label
                /\ Len(df') = n - 1
                /\ \A q \in 1..(p - 1) : df'[q].row = before[q].row
                /\ \A q \in (p + 1)..n : df'[q - 1].row = before[q].row
                /\ \A q \in 1..(n - 1) : df'[q].index = q - 1]_vars

\* C8, its case: a delete, persisted and reloaded, after which a record is at a lower position
C8_record_moved_down ==
    /\ last.op = "delete"
    /\ last.fired
    /\ AllOk(last)
    /\ df # EmptyFrame
    /\ \E i \in 1..Len(df) : last.mutated[i].index > df[i].index

\* C9: load_data, save_data of what was loaded and load_data again, all three
\* succeeding, give the records of the first load, in order, with their field values
C9_round_trip ==
    (last.op = "reload" /\ AllOk(last)) => Rows(df) = Rows(last.mutated)

\* C9, its case: a round trip of a worksheet with a blank row above a record
C9_round_trip_done ==
    /\ last.op = "reload"
    /\ AllOk(last)
    /\ df # EmptyFrame
    /\ \E i \in 1..Len(df) : last.mutated[i].index # df[i].index

\* C10: after a create whose persist succeeded the worksheet holds the records it
\* held before, in order, and then the new record, whatever the run's load returned
C10_create_keeps_stored_records ==
    [][(last'.op = "create" /\ last'.saveOutcome = "ok") =>
          Rows(Coerce(load_data(store', "ok"), today)) =
              Rows(Coerce(load_data(store, "ok"), today)) \o last'.edited]_vars

=============================================================================
